---- MODULE Spec2Model ----
(***************************************************************************)
(* restrictRegionally of the icesat2-book notebooks (regional analysis     *)
(* notebook and mapping notebook), as a state machine.                     *)
(*                                                                         *)
(* Datasets and arrays are objects on a heap: a dataset holds references   *)
(* to its arrays, so that dataset.copy() (a shallow copy), DataArray.where *)
(* (a new array) and regionalDataset[var] = ... (a rebinding in one        *)
(* dataset) are modelled by what they do to the objects.                   *)
(***************************************************************************)
EXTENDS Integers, Sequences, FiniteSets, TLC

\* ------------------------------------------------------------- bounds
NCells == 2
NTimes == 2
MaxLen == 3
MaxLenInnerArctic == 7

Cells == 1..NCells
Times == 1..NTimes

\* ------------------------------------------------------------- values
\* A grid cell value: a number or the missing-value sentinel (NaN).
NaN == [nan |-> TRUE, v |-> 0]
Num(n) == [nan |-> FALSE, v |-> n]

None == [none |-> TRUE]

\* References into a heap are positive; 0 is the null reference.
IsRef(r) == r > 0

Range(s) == {s[i] : i \in DOMAIN s}

\* A Python value passed as regionKeyList: its type and its items.
PyList(s) == [pytype |-> "list", items |-> s]
PyOther(t, s) == [pytype |-> t, items |-> s]

\* ------------------------------------------------------------- names
SIC == "seaice_conc_monthly_cdr"
RegionsAttr == "regions with data"

\* dataset.data_vars, in iteration order
DataVars == <<"ice_thickness_filled", SIC, "ice_type_filled">>
CoordNames == {"latitude", "longitude", "region_mask"}

\* set([10,11,12,13,15])
InnerArcticKeys == {10, 11, 12, 13, 15}

\* ------------------------------------------------------------- the notebooks
\* The two notebooks that define restrictRegionally differ in their import cell.
Notebooks == {"regional_analysis", "mapping"}

\* Whether the name `warnings` is bound in the notebook's namespace.
WarningsImported(nb) == nb = "mapping"

\* The warnings filter in force: warnings.filterwarnings('ignore') or the default.
WarningsFilter(nb) == IF nb = "mapping" THEN "ignore" ELSE "default"

\* ------------------------------------------------------------- inputs
\* Region labels of the catalogue (region_mask.attrs['labels']).
LabelOf(k) ==
    CASE k = 10 -> "Laptev Sea"
      [] k = 13 -> "Beaufort Sea"
      [] k = 15 -> "Arctic Ocean"
      [] OTHER -> "Region " \o ToString(k)

SeqsUpTo(S, n) == UNION {[1..m -> S] : m \in 0..n}

\* Catalogues of the small scenario: region_mask.attrs['keys'].
Catalogues == {<<10, 13>>, <<13, 10>>, <<13>>}

\* Keys a caller may put in regionKeyList: catalogued ones and 999.
ListKeys == {10, 13, 999}

\* region_mask values of a grid cell; 21 (coast) is in no catalogue here.
MaskValues == {10, 13, 21}

KeyLists == {PyList(s) : s \in SeqsUpTo(ListKeys, MaxLen)}

\* Arguments that are not lists: the integer 13, the set {999}, the string ''.
NonLists == {PyOther("int", <<13>>), PyOther("set", <<999>>), PyOther("str", <<>>)}

Arguments == KeyLists \cup NonLists

\* The Inner Arctic scenario: a catalogue of six regions, the five Inner Arctic
\* ones among them, and the lists whose keys are exactly the Inner Arctic ones.
InnerArcticCatalogue == <<10, 11, 12, 13, 14, 15>>

InnerArcticLists ==
    {PyList(s) : s \in {t \in UNION {[1..m -> InnerArcticKeys] : m \in 5..MaxLenInnerArctic} :
                            Range(t) = InnerArcticKeys}}

\* The cell values of the input file: every cell of every variable distinct,
\* one cell of ice_type_filled already missing.
InputArray(n) ==
    [p \in Times \X Cells |->
        IF n = 3 /\ p = <<1, 1>> THEN NaN ELSE Num(100 * n + 10 * p[1] + p[2])]

CoordArray(n) == [c \in Cells |-> Num(10 * n + c)]

\* The heap of arrays of a freshly loaded dataset with region mask m:
\* 1..3 the data variables, 4 latitude, 5 longitude, 6 region_mask.
LoadedArrays(m) ==
    <<InputArray(1), InputArray(2), InputArray(3),
      CoordArray(1), CoordArray(2), [c \in Cells |-> Num(m[c])]>>

LoadedDataset(keys) ==
    [data_vars |-> [i \in DOMAIN DataVars |-> i],
     coords |-> [n \in CoordNames |->
                    CASE n = "latitude" -> 4 [] n = "longitude" -> 5 [] OTHER -> 6],
     keys |-> keys,
     labels |-> [i \in DOMAIN keys |-> LabelOf(keys[i])],
     attrs |-> {}]

VARIABLES
    notebook,        \* which notebook's copy of the function runs
    arrays,          \* heap of arrays
    datasets,        \* heap of datasets
    dataset,         \* parameter: reference to the dataset passed in
    regionKeyList,   \* parameter
    pc,              \* position in restrictRegionally
    regionTbl,       \* local: [key, label]
    keysToRemove,    \* local
    regionalDataset, \* local: reference, or 0
    varsLeft,        \* local: data variables the for loop has still to visit
    labels,          \* local
    raised,          \* the exception that ended the call, or None
    warned,          \* warnings shown to the caller
    printed,         \* lines printed
    returned,        \* reference returned, or 0
    before,          \* the heap when the call was made
    history,         \* the regionKeyList of each earlier, completed call
    fig              \* the figure of the plotting function that was called

vars == <<notebook, arrays, datasets, dataset, regionKeyList, pc, regionTbl,
          keysToRemove, regionalDataset, varsLeft, labels, raised, warned,
          printed, returned, before, history, fig>>

locals == <<regionTbl, keysToRemove, regionalDataset, varsLeft, labels>>

\* ------------------------------------------------------------- reading the heap
\* The content of dataset d in heap h: arrays by value.
Content(h, d) ==
    LET ds == h.datasets[d] IN
    [data_vars |-> [i \in DOMAIN ds.data_vars |-> h.arrays[ds.data_vars[i]]],
     coords |-> [n \in DOMAIN ds.coords |-> h.arrays[ds.coords[n]]],
     keys |-> ds.keys,
     labels |-> ds.labels,
     attrs |-> ds.attrs]

Heap == [arrays |-> arrays, datasets |-> datasets]

VarIndex(name) == CHOOSE i \in DOMAIN DataVars : DataVars[i] = name

\* ------------------------------------------------------------- checkKeys
ListMessage ==
    "regionKeyList needs to be a list. \nFor example, if you want to restrict data to the Beaufort Sea, define regionKeyList = [13]"

KeyMessage(key) ==
    "Region key " \o ToString(key) \o " does not exist in region mask. \n Redefine regionKeyList with key numbers from table"

EmptyMessage ==
    "You removed all the data from the dataset. Are you sure you wanted to do this? \n If not, make sure the list regionKeyList is not empty and try again. \n If you intended to keep data from all regions, set regionKeyList = list(tbl[\"key\"])"

ValueError(msg) == [type |-> "ValueError", msg |-> msg]
NameError(name) == [type |-> "NameError", msg |-> "name '" \o name \o "' is not defined"]

\* A check that accepts any collection of keys.
IsCollection(x) == x.pytype \in {"list", "tuple", "set"}

\* type(regionKeyList) != list
IsList(x) == x.pytype = "list"

\* key not in list(regionTbl['key'])
InTable(key, tbl) == \E i \in DOMAIN tbl.key : tbl.key[i] = key

\* for key in regionKeyList: the index of the first key that is not in the
\* table, or 0 when the loop ends without raising.
RECURSIVE ScanKeys(_, _, _)
ScanKeys(items, i, tbl) ==
    IF i > Len(items) THEN 0
    ELSE IF ~InTable(items[i], tbl) THEN i
    ELSE ScanKeys(items, i + 1, tbl)

\* A loop that goes on after a key that is not in the table and raises for
\* the last such key.
LastBadKey(items, tbl) ==
    IF \A i \in DOMAIN items : InTable(items[i], tbl) THEN 0
    ELSE CHOOSE i \in DOMAIN items :
            /\ ~InTable(items[i], tbl)
            /\ \A j \in DOMAIN items : j > i => InTable(items[j], tbl)

FirstBadKey(items, tbl) == ScanKeys(items, 1, tbl)

\* warnings.warn(...) in notebook nb: what the statement does.
Warn(nb, msg) ==
    IF ~WarningsImported(nb) THEN [raises |-> TRUE, shown |-> <<>>]
    ELSE IF WarningsFilter(nb) = "ignore" THEN [raises |-> FALSE, shown |-> <<>>]
    ELSE [raises |-> FALSE, shown |-> <<msg>>]

\* ------------------------------------------------------------- the transformation
\* [key for key in list(regionTbl['key']) if key not in regionKeyList]
KeysToRemoveOf(tbl, items) == SelectSeq(tbl.key, LAMBDA k : k \notin Range(items))

\* regionalDataset = dataset: a second name for the same dataset object.
DatasetAlias(dss, d) == [datasets |-> dss, ref |-> d]

\* dataset.copy(): a new dataset object with the same array references and a
\* copy of the attrs dictionary.
DatasetCopy(dss, d) == [datasets |-> Append(dss, dss[d]), ref |-> Len(dss) + 1]

\* A loop that leaves out no variable.
ShouldMaskEvery(var) == TRUE

\* if var != 'seaice_conc_monthly_cdr'
ShouldMask(var) == var # SIC

\* regionalVar.where(..., drop = True): the cells where the condition is false
\* are dropped from the array.
WhereDrop(arr, mask, key) ==
    [p \in {q \in DOMAIN arr : mask[q[2]] # Num(key)} |-> arr[p]]

\* regionalVar.where(regionalVar['region_mask'] != key): a new array, NaN
\* where the condition is false, at every time step.
Where(arr, mask, key) ==
    [p \in DOMAIN arr |-> IF mask[p[2]] # Num(key) THEN arr[p] ELSE NaN]

\* A loop that masks the variable of the dataset anew in each iteration, so
\* that only the last key's exclusion is left.
MaskLoopLastOnly(arr, mask, keys) ==
    IF keys = <<>> THEN arr ELSE Where(arr, mask, keys[Len(keys)])

\* for key in keysToRemove: regionalVar = regionalVar.where(...)
RECURSIVE MaskLoop(_, _, _)
MaskLoop(arr, mask, keys) ==
    IF keys = <<>> THEN arr
    ELSE MaskLoop(Where(arr, mask, Head(keys)), mask, Tail(keys))

\* regionTbl[regionTbl['key'] == key]['label']: the labels of the matching rows
MatchingLabels(tbl, key) ==
    LET rows == SelectSeq([i \in DOMAIN tbl.key |-> i], LAMBDA i : tbl.key[i] = key)
    IN [j \in DOMAIN rows |-> tbl.label[rows[j]]]

\* A lookup that takes the first of the matching labels.
ItemAny(tbl, key) == Len(MatchingLabels(tbl, key)) >= 1

\* .item() is defined on exactly one element
ItemOk(tbl, key) == Len(MatchingLabels(tbl, key)) = 1

FindLabels(tbl, items) == [i \in DOMAIN items |-> MatchingLabels(tbl, items[i])[1]]

\* ', '.join(map(str, labels))
RECURSIVE Join(_)
Join(ls) ==
    IF ls = <<>> THEN ""
    ELSE IF Len(ls) = 1 THEN ls[1]
    ELSE ls[1] \o ", " \o Join(Tail(ls))

\* the value given to attrs['regions with data']
Summary(items, ls, tbl) ==
    IF Len(ls) < Len(tbl.key)
    THEN IF Range(items) = InnerArcticKeys THEN "Inner Arctic" ELSE Join(ls)
    ELSE "All"

\* the line printed
PrintLine(items, ls, tbl) ==
    IF Len(ls) < Len(tbl.key)
    THEN "Regions selected: " \o Summary(items, ls, tbl)
    ELSE "Regions selected: All \nNo regions will be removed"

\* attrs[name] = value on a dictionary held as a set of <<name, value>> pairs
SetAttr(attrs, name, value) ==
    {a \in attrs : a[1] # name} \cup {<<name, value>>}

GetAttr(attrs, name) == {a[2] : a \in {b \in attrs : b[1] = name}}

\* No plotting function has been called.
NoFigure ==
    [fn |-> "", at |-> "none", dataset |-> 0, dataVar |-> "", i |-> 0,
     axs |-> 0, drawn |-> <<>>, im |-> <<>>, cb |-> <<>>, raised |-> None]

InitCommon ==
    /\ fig = NoFigure
    /\ notebook \in Notebooks
    /\ dataset = 1
    /\ regionKeyList = None
    /\ pc = "idle"
    /\ regionTbl = None
    /\ keysToRemove = <<>>
    /\ regionalDataset = 0
    /\ varsLeft = <<>>
    /\ labels = <<>>
    /\ raised = None
    /\ warned = <<>>
    /\ printed = <<>>
    /\ returned = 0
    /\ before = None
    /\ history = <<>>

Init ==
    /\ InitCommon
    /\ \E keys \in Catalogues, m \in [Cells -> MaskValues] :
        /\ arrays = LoadedArrays(m)
        /\ datasets = <<LoadedDataset(keys)>>

\* ------------------------------------------------------------- the heap operations
\* regionalVar = regionalDataset[var]; the loop of where; regionalDataset[var] =
\* regionalVar: a new array when the loop ran, the same array object when
\* keysToRemove is empty, bound to var in dataset d only.
MaskedHeap(h, d, var, keys) ==
    LET ds == h.datasets[d]
        i == VarIndex(var)
        mask == h.arrays[ds.coords["region_mask"]]
        regionalVar == MaskLoop(h.arrays[ds.data_vars[i]], mask, keys)
    IN IF keys = <<>> THEN h
       ELSE [arrays |-> Append(h.arrays, regionalVar),
             datasets |-> [h.datasets EXCEPT ![d].data_vars[i] = Len(h.arrays) + 1]]

\* An attribute that keeps what an earlier call wrote and adds to it.
AppendDatasetAttr(dss, d, value) ==
    LET old == GetAttr(dss[d].attrs, RegionsAttr)
    IN [dss EXCEPT ![d].attrs =
            SetAttr(@, RegionsAttr,
                    IF old = {} THEN value
                    ELSE (CHOOSE o \in old : TRUE) \o "; " \o value)]

\* regionalDataset.attrs['regions with data'] = value
SetDatasetAttr(dss, d, value) ==
    [dss EXCEPT ![d].attrs = SetAttr(@, RegionsAttr, value)]

\* ------------------------------------------------------------- the caller
\* restrictRegionally(dataset, regionKeyList) is entered with argument a on
\* dataset d; the table of keys and labels is built from region_mask.attrs.
Enter(d, a) ==
    /\ dataset' = d
    /\ regionKeyList' = a
    /\ regionTbl' = [key |-> datasets[d].keys, label |-> datasets[d].labels]
    /\ keysToRemove' = <<>>
    /\ regionalDataset' = 0
    /\ varsLeft' = <<>>
    /\ labels' = <<>>
    /\ raised' = None
    /\ warned' = <<>>
    /\ printed' = <<>>
    /\ returned' = 0
    /\ before' = Heap
    /\ pc' = "checkType"
    /\ UNCHANGED <<notebook, arrays, datasets, fig>>

\* The call on the loaded dataset.
Call ==
    /\ pc = "idle"
    /\ \E a \in Arguments : Enter(dataset, a)
    /\ UNCHANGED history

\* The call on the dataset a first call returned:
\* restrictRegionally(restrictRegionally(dataset, A), B).
CallOnResult ==
    /\ pc = "done"
    /\ history = <<>>
    /\ \E a \in Arguments : Enter(returned, a)
    /\ history' = Append(history, regionKeyList)

CallInnerArctic ==
    /\ pc = "idle"
    /\ \E a \in InnerArcticLists : Enter(dataset, a)
    /\ UNCHANGED history

\* ------------------------------------------------------------- restrictRegionally
\* A failure that is recorded while the call goes on to the transformation.
RaiseLate(e) ==
    /\ raised' = e
    /\ pc' = "keysToRemove"

Raise(e) ==
    /\ raised' = e
    /\ pc' = "error"

CheckType ==
    /\ pc = "checkType"
    /\ IF ~IsList(regionKeyList)
       THEN Raise(ValueError(ListMessage))
       ELSE pc' = "checkKeys" /\ UNCHANGED raised
    /\ UNCHANGED <<notebook, arrays, datasets, dataset, regionKeyList, locals,
                   warned, printed, returned, before, history,
                   fig>>

CheckKeys ==
    /\ pc = "checkKeys"
    /\ LET i == FirstBadKey(regionKeyList.items, regionTbl)
       IN IF i # 0
          THEN Raise(ValueError(KeyMessage(regionKeyList.items[i])))
          ELSE pc' = "checkEmpty" /\ UNCHANGED raised
    /\ UNCHANGED <<notebook, arrays, datasets, dataset, regionKeyList, locals,
                   warned, printed, returned, before, history,
                   fig>>

CheckEmpty ==
    /\ pc = "checkEmpty"
    /\ IF Len(regionKeyList.items) = 0
       THEN LET w == Warn(notebook, EmptyMessage)
            IN IF w.raises
               THEN Raise(NameError("warnings")) /\ UNCHANGED warned
               ELSE /\ warned' = warned \o w.shown
                    /\ pc' = "keysToRemove"
                    /\ UNCHANGED raised
       ELSE pc' = "keysToRemove" /\ UNCHANGED <<raised, warned>>
    /\ UNCHANGED <<notebook, arrays, datasets, dataset, regionKeyList, locals,
                   printed, returned, before, history,
                   fig>>

ComputeKeysToRemove ==
    /\ pc = "keysToRemove"
    /\ keysToRemove' = KeysToRemoveOf(regionTbl, regionKeyList.items)
    /\ pc' = "copy"
    /\ UNCHANGED <<notebook, arrays, datasets, dataset, regionKeyList, regionTbl,
                   regionalDataset, varsLeft, labels, raised, warned, printed,
                   returned, before, history,
                   fig>>

Copy ==
    /\ pc = "copy"
    /\ LET c == DatasetCopy(datasets, dataset)
       IN /\ datasets' = c.datasets
          /\ regionalDataset' = c.ref
    /\ varsLeft' = DataVars
    /\ pc' = "mask"
    /\ UNCHANGED <<notebook, arrays, dataset, regionKeyList, regionTbl,
                   keysToRemove, labels, raised, warned, printed, returned,
                   before, history,
                   fig>>

\* one iteration of: for var in dataset.data_vars
MaskVar ==
    /\ pc = "mask"
    /\ varsLeft # <<>>
    /\ LET var == Head(varsLeft)
           h == IF ShouldMask(var)
                THEN MaskedHeap(Heap, regionalDataset, var, keysToRemove)
                ELSE Heap
       IN /\ arrays' = h.arrays
          /\ datasets' = h.datasets
    /\ varsLeft' = Tail(varsLeft)
    /\ pc' = IF Tail(varsLeft) = <<>> THEN "labels" ELSE "mask"
    /\ UNCHANGED <<notebook, dataset, regionKeyList, regionTbl, keysToRemove,
                   regionalDataset, labels, raised, warned, printed, returned,
                   before, history,
                   fig>>

ItemMessage == "can only convert an array of size 1 to a Python scalar"

LookUpLabels ==
    /\ pc = "labels"
    /\ IF \E i \in DOMAIN regionKeyList.items : ~ItemOk(regionTbl, regionKeyList.items[i])
       THEN Raise(ValueError(ItemMessage)) /\ UNCHANGED labels
       ELSE /\ labels' = FindLabels(regionTbl, regionKeyList.items)
            /\ pc' = "attrs"
            /\ UNCHANGED raised
    /\ UNCHANGED <<notebook, arrays, datasets, dataset, regionKeyList, regionTbl,
                   keysToRemove, regionalDataset, varsLeft, warned, printed,
                   returned, before, history,
                   fig>>

\* the attribute, the printed line and the return
SetAttrsAndReturn ==
    /\ pc = "attrs"
    /\ datasets' = SetDatasetAttr(datasets, regionalDataset,
                                  Summary(regionKeyList.items, labels, regionTbl))
    /\ printed' = Append(printed, PrintLine(regionKeyList.items, labels, regionTbl))
    /\ returned' = regionalDataset
    /\ pc' = "done"
    /\ UNCHANGED <<notebook, arrays, dataset, regionKeyList, locals, raised,
                   warned, before, history,
                   fig>>

Next ==
    \/ Call
    \/ CallOnResult
    \/ CheckType
    \/ CheckKeys
    \/ CheckEmpty
    \/ ComputeKeysToRemove
    \/ Copy
    \/ MaskVar
    \/ LookUpLabels
    \/ SetAttrsAndReturn

Spec == Init /\ [][Next]_vars

\* The Inner Arctic scenario: one call, on the six-region catalogue.
InitInnerArctic ==
    /\ InitCommon
    /\ arrays = LoadedArrays([c \in Cells |-> InnerArcticCatalogue[((c - 1) % 6) + 1]])
    /\ datasets = <<LoadedDataset(InnerArcticCatalogue)>>

NextInnerArctic ==
    \/ CallInnerArctic
    \/ CheckType
    \/ CheckKeys
    \/ CheckEmpty
    \/ ComputeKeysToRemove
    \/ Copy
    \/ MaskVar
    \/ LookUpLabels
    \/ SetAttrsAndReturn

SpecInnerArctic == InitInnerArctic /\ [][NextInnerArctic]_vars

\* ------------------------------------------------------------- the call as a function
\* What restrictRegionally(dataset, regionKeyList) of notebook nb does on
\* dataset d of heap h with argument a: the exception it raises or the content
\* of the dataset it returns, by the statements in their order.
Outcome(nb, h, d, a) ==
    LET ds == Content(h, d)
        tbl == [key |-> ds.keys, label |-> ds.labels]
        failed(e) == [raised |-> e, result |-> None]
    IN IF ~IsList(a) THEN failed(ValueError(ListMessage))
       ELSE IF FirstBadKey(a.items, tbl) # 0
       THEN failed(ValueError(KeyMessage(a.items[FirstBadKey(a.items, tbl)])))
       ELSE IF Len(a.items) = 0 /\ Warn(nb, EmptyMessage).raises
       THEN failed(NameError("warnings"))
       ELSE IF \E i \in DOMAIN a.items : ~ItemOk(tbl, a.items[i])
       THEN failed(ValueError(ItemMessage))
       ELSE [raised |-> None,
             result |->
                [ds EXCEPT
                    !.data_vars =
                        [i \in DOMAIN ds.data_vars |->
                            IF ShouldMask(DataVars[i])
                            THEN MaskLoop(ds.data_vars[i], ds.coords["region_mask"],
                                          KeysToRemoveOf(tbl, a.items))
                            ELSE ds.data_vars[i]],
                    !.attrs = SetAttr(@, RegionsAttr,
                                      Summary(a.items, FindLabels(tbl, a.items), tbl))]]

\* ------------------------------------------------------------- the caller writes
\* After regionalDataset = restrictRegionally(dataset, regionKeyList) the caller
\* holds both datasets. The arrays a dataset refers to:
ArraysOf(ds) ==
    {ds.data_vars[i] : i \in DOMAIN ds.data_vars} \cup {ds.coords[n] : n \in DOMAIN ds.coords}

WrittenValues == {NaN, Num(0)}

\* regionalDataset[field].values[p] = x: an in-place write to the array object
\* the returned dataset refers to.
WriteCell ==
    /\ pc = "done"
    /\ \E r \in ArraysOf(datasets[returned]) : \E p \in DOMAIN arrays[r] :
        \E x \in WrittenValues \ {arrays[r][p]} :
            arrays' = [arrays EXCEPT ![r][p] = x]
    /\ pc' = "written"
    /\ UNCHANGED <<notebook, datasets, dataset, regionKeyList, locals, raised,
                   warned, printed, returned, before, history,
                   fig>>

\* regionalDataset.attrs[name] = value
WriteAttr ==
    /\ pc = "done"
    /\ \E name \in {RegionsAttr, "title"} :
        datasets' = [datasets EXCEPT ![returned].attrs = SetAttr(@, name, "written")]
    /\ pc' = "written"
    /\ UNCHANGED <<notebook, arrays, dataset, regionKeyList, locals, raised,
                   warned, printed, returned, before, history,
                   fig>>

NextAlias ==
    \/ Call
    \/ CheckType
    \/ CheckKeys
    \/ CheckEmpty
    \/ ComputeKeysToRemove
    \/ Copy
    \/ MaskVar
    \/ LookUpLabels
    \/ SetAttrsAndReturn
    \/ WriteCell
    \/ WriteAttr

SpecAlias == Init /\ [][NextAlias]_vars

\* ------------------------------------------------------------- malformed catalogues
\* region_mask.attrs['keys'] is read from the file and nothing makes its keys
\* unique: catalogues that list a key twice, next to well-formed ones.
MalformedCatalogues == {<<10, 13, 13>>, <<13, 13>>, <<10, 13>>, <<13>>}

InitMalformed ==
    /\ InitCommon
    /\ \E keys \in MalformedCatalogues, m \in [Cells -> MaskValues] :
        /\ arrays = LoadedArrays(m)
        /\ datasets = <<LoadedDataset(keys)>>

NextMalformed ==
    \/ Call
    \/ CheckType
    \/ CheckKeys
    \/ CheckEmpty
    \/ ComputeKeysToRemove
    \/ Copy
    \/ MaskVar
    \/ LookUpLabels
    \/ SetAttrsAndReturn

SpecMalformed == InitMalformed /\ [][NextMalformed]_vars

\* ------------------------------------------------------------- the maps
\* Concentrations and longitudes are held in thousandths (0.5 is 500, -0.01 is
\* -10); longitudes are numbers (the grid has no missing longitude).
CoastKey == 21
SICThreshold == 500
LonGreaterBound == -10
LonLesserBound == 0
NRows == 2
NCols == 3

\* The longest time axis of a mapped dataset.
MaxSteps == 7

\* The variables the notebook maps.
PlotVars == {DataVars[i] : i \in {j \in DOMAIN DataVars : DataVars[j] # SIC}}

\* Values of seaice_conc_monthly_cdr around 0.5 and of longitude around the
\* two bounds of the contour workaround.
SICSeq == <<Num(400), Num(500), Num(600), NaN>>
LonSeq == <<-20, -10, -5, 0, 5>>

\* A dataset of n time steps: the variables, seaice_conc_monthly_cdr and
\* longitude filled from the sequences above, starting at s and at l.
StepsArray(v, n) ==
    [p \in (1..n) \X Cells |->
        IF v = 3 /\ p = <<1, 1>> THEN NaN ELSE Num(100 * v + 10 * p[1] + p[2])]

SICPattern(n, s) ==
    [p \in (1..n) \X Cells |-> SICSeq[((p[1] + p[2] + s) % Len(SICSeq)) + 1]]

LonPattern(l) == [c \in Cells |-> Num(LonSeq[((c + l) % Len(LonSeq)) + 1])]

MapArrays(n, m, s, l) ==
    <<StepsArray(1, n), SICPattern(n, s), StepsArray(3, n),
      CoordArray(1), LonPattern(l), [c \in Cells |-> Num(m[c])]>>

\* len(dataset.time)
TimeSteps(h, d) ==
    {p[1] : p \in DOMAIN h.arrays[h.datasets[d].data_vars[VarIndex(SIC)]]}

\* x > k and x < k on a value: false on NaN
Above(x, k) == ~x.nan /\ x.v > k
Below(x, k) == ~x.nan /\ x.v < k

\* ma.masked_less_equal(x, value): the mask that also hides the bound itself.
MaskedLessEqual(x, value) == [c \in DOMAIN x |-> ~x[c].nan /\ x[c].v <= value]

\* ma.masked_greater(x, value).mask, ma.masked_less(x, value).mask
MaskedGreater(x, value) == [c \in DOMAIN x |-> Above(x[c], value)]
MaskedLess(x, value) == [c \in DOMAIN x |-> Below(x[c], value)]

\* ma.MaskedArray(data, mask = mask)
MaskedArray(data, mask) == [data |-> data, mask |-> mask]

\* dataset['seaice_conc_monthly_cdr'].where(dataset['region_mask'] != 21) at
\* time step t (t counts from 1)
SICarrayOf(h, d, t) ==
    LET ds == Content(h, d)
    IN [c \in Cells |->
            IF ds.coords["region_mask"][c] # Num(CoastKey)
            THEN ds.data_vars[VarIndex(SIC)][<<t, c>>]
            ELSE NaN]

\* dataset[dataVar].where(dataset['seaice_conc_monthly_cdr'] > 0.5) at time step t
PlottedOf(h, d, dataVar, t) ==
    LET ds == Content(h, d)
    IN [c \in Cells |->
            IF Above(ds.data_vars[VarIndex(SIC)][<<t, c>>], SICThreshold)
            THEN ds.data_vars[VarIndex(dataVar)][<<t, c>>]
            ELSE NaN]

\* What one map shows: the data and the inputs of the two contour calls.
Panel(h, d, dataVar, t) ==
    LET ds == Content(h, d)
        SICarray == SICarrayOf(h, d, t)
        lonGreater == MaskedArray(ds.coords["longitude"],
                                  MaskedGreater(ds.coords["longitude"], LonGreaterBound))
        lonLesser == MaskedArray(ds.coords["longitude"],
                                 MaskedLess(ds.coords["longitude"], LonLesserBound))
    IN [time |-> t,
        data |-> PlottedOf(h, d, dataVar, t),
        SICarray |-> SICarray,
        lonGreater |-> lonGreater,
        lonLesser |-> lonLesser,
        latGreater |-> MaskedArray(ds.coords["latitude"], lonGreater.mask),
        latLesser |-> MaskedArray(ds.coords["latitude"], lonLesser.mask),
        dataGreater |-> MaskedArray(SICarray, lonGreater.mask),
        dataLesser |-> MaskedArray(SICarray, lonLesser.mask)]

IndexError(i, size) ==
    [type |-> "IndexError",
     msg |-> "index " \o ToString(i) \o " is out of bounds for axis 0 with size "
             \o ToString(size)]

UnboundLocalError(name) ==
    [type |-> "UnboundLocalError",
     msg |-> "local variable '" \o name \o "' referenced before assignment"]

\* The colour bar taken from the first map drawn.
ImFirst(im, i) == IF im = <<>> THEN <<i>> ELSE im

\* im = ....plot(...): im is bound to the map just drawn on panel i
ImAfter(im, i) == <<i>>

\* The dataset a plotting function is called on: the loaded dataset, or the
\* one restrictRegionally returned.
PlotTarget(d) ==
    \/ pc = "idle" /\ d = dataset
    \/ pc = "done" /\ d = returned

\* plotOneMonth(dataset, dataVar, month, ...): one figure with one map
PlotOneMonth ==
    /\ \E d \in DOMAIN datasets, dataVar \in PlotVars :
        /\ PlotTarget(d)
        /\ \E month \in TimeSteps(Heap, d) :
            fig' = [fn |-> "plotOneMonth", at |-> "shown", dataset |-> d,
                    dataVar |-> dataVar, i |-> 0, axs |-> 1,
                    drawn |-> <<[ax |-> 0, map |-> Panel(Heap, d, dataVar, month)]>>,
                    im |-> <<>>, cb |-> <<0>>, raised |-> None]
    /\ pc' = "plotting"
    /\ UNCHANGED <<notebook, arrays, datasets, dataset, regionKeyList, locals,
                   raised, warned, printed, returned, before, history>>

\* plotWinterMaps(dataset, dataVar, ...) up to the loop: plt.subplots(nrows=2, ncols=3)
PlotWinterMaps ==
    /\ \E d \in DOMAIN datasets, dataVar \in PlotVars :
        /\ PlotTarget(d)
        /\ fig' = [fn |-> "plotWinterMaps", at |-> "loop", dataset |-> d,
                   dataVar |-> dataVar, i |-> 0, axs |-> NRows * NCols,
                   drawn |-> <<>>, im |-> <<>>, cb |-> <<>>, raised |-> None]
    /\ pc' = "plotting"
    /\ UNCHANGED <<notebook, arrays, datasets, dataset, regionKeyList, locals,
                   raised, warned, printed, returned, before, history>>

\* one iteration of: for i in range(len(dataset.time))
WinterPanel ==
    /\ fig.at = "loop"
    /\ fig.i < Cardinality(TimeSteps(Heap, fig.dataset))
    /\ IF fig.i >= fig.axs
       THEN fig' = [fig EXCEPT !.at = "error", !.raised = IndexError(fig.i, fig.axs)]
       ELSE fig' = [fig EXCEPT
                        !.drawn = Append(@, [ax |-> fig.i,
                                             map |-> Panel(Heap, fig.dataset, fig.dataVar,
                                                           fig.i + 1)]),
                        !.im = ImAfter(@, fig.i),
                        !.i = @ + 1]
    /\ UNCHANGED <<notebook, arrays, datasets, dataset, regionKeyList, pc, locals,
                   raised, warned, printed, returned, before, history>>

\* after the loop: fig.colorbar(im, ...) and plt.show()
WinterColorbar ==
    /\ fig.at = "loop"
    /\ fig.i = Cardinality(TimeSteps(Heap, fig.dataset))
    /\ IF fig.im = <<>>
       THEN fig' = [fig EXCEPT !.at = "error", !.raised = UnboundLocalError("im")]
       ELSE fig' = [fig EXCEPT !.at = "shown", !.cb = fig.im]
    /\ UNCHANGED <<notebook, arrays, datasets, dataset, regionKeyList, pc, locals,
                   raised, warned, printed, returned, before, history>>

\* The maps of a dataset of any number of time steps.
InitMaps ==
    /\ InitCommon
    /\ notebook = "mapping"
    /\ \E n \in 0..MaxSteps, m \in [Cells -> MaskValues],
          s \in DOMAIN SICSeq, l \in DOMAIN LonSeq :
        /\ arrays = MapArrays(n, m, s, l)
        /\ datasets = <<LoadedDataset(<<10, 13>>)>>

NextMaps ==
    \/ PlotOneMonth
    \/ PlotWinterMaps
    \/ WinterPanel
    \/ WinterColorbar

SpecMaps == InitMaps /\ [][NextMaps]_vars

\* The maps of the loaded dataset and of the dataset restrictRegionally returned.
InitPlot ==
    /\ InitCommon
    /\ notebook = "mapping"
    /\ \E keys \in Catalogues, m \in [Cells -> MaskValues], s \in DOMAIN SICSeq :
        /\ arrays = MapArrays(NTimes, m, s, 1)
        /\ datasets = <<LoadedDataset(keys)>>

NextPlot ==
    \/ Call
    \/ CheckType
    \/ CheckKeys
    \/ CheckEmpty
    \/ ComputeKeysToRemove
    \/ Copy
    \/ MaskVar
    \/ LookUpLabels
    \/ SetAttrsAndReturn
    \/ PlotOneMonth
    \/ PlotWinterMaps
    \/ WinterPanel
    \/ WinterColorbar

SpecPlot == InitPlot /\ [][NextPlot]_vars

\* ------------------------------------------------------------- the claims
\* What a finished call was given and what it returned.
In == Content(before, dataset)
Out == Content(Heap, returned)
Items == regionKeyList.items
ArgIsList == regionKeyList.pytype = "list"
Selected == Range(Items)
CatalogueKeys == Range(In.keys)
MaskAt(c) == In.coords["region_mask"][c]
InSelection(c) == \E k \in Selected : MaskAt(c) = Num(k)
MaskedVars == {i \in DOMAIN DataVars : DataVars[i] # SIC}
RegionsWithData == GetAttr(Out.attrs, RegionsAttr)

\* C1: in the returned dataset every cell of every variable other than
\* seaice_conc_monthly_cdr, at every time step, has its input value when the
\* cell's region_mask value is in regionKeyList and is NaN otherwise, whatever
\* the region_mask value is (a value outside the catalogue included).
C1_KeptIffSelected ==
    pc = "done" =>
        \A i \in MaskedVars : \A p \in Times \X Cells :
            Out.data_vars[i][p] =
                IF InSelection(p[2]) THEN In.data_vars[i][p] ELSE NaN

\* C2: the seaice_conc_monthly_cdr field of the returned dataset equals that
\* of the input, cell by cell and time step by time step.
C2_ConcentrationUntouched ==
    pc = "done" =>
        \A p \in Times \X Cells :
            Out.data_vars[VarIndex(SIC)][p] = In.data_vars[VarIndex(SIC)][p]

\* A call returned after removing a region that has a cell: the other
\* variables are NaN there, the concentration is a number.
C2_Witness ==
    /\ pc = "done"
    /\ \E c \in Cells :
        /\ \E j \in DOMAIN keysToRemove : MaskAt(c) = Num(keysToRemove[j])
        /\ \A t \in Times :
            /\ Out.data_vars[VarIndex("ice_thickness_filled")][<<t, c>>] = NaN
            /\ In.data_vars[VarIndex("ice_thickness_filled")][<<t, c>>] # NaN
            /\ Out.data_vars[VarIndex(SIC)][<<t, c>>] # NaN

\* C3: from the call on, whether it goes on to return or to raise, every
\* dataset that existed when the call was made (the argument among them) has
\* the cell values, coordinates, catalogue and attrs it had then.
C3_InputUnchanged ==
    pc # "idle" =>
        /\ Len(datasets) >= Len(before.datasets)
        /\ \A d \in DOMAIN before.datasets : Content(Heap, d) = Content(before, d)

\* A call returned a dataset with masked cells and the new attribute, on an
\* input that has neither.
C3_Witness ==
    /\ pc = "done"
    /\ GetAttr(In.attrs, RegionsAttr) = {}
    /\ RegionsWithData # {}
    /\ \E i \in MaskedVars : \E p \in Times \X Cells :
        Out.data_vars[i][p] = NaN /\ In.data_vars[i][p] # NaN

\* C4: a list with a key that is not in the catalogue ends the call with the
\* ValueError that names the first such key in list order; nothing is
\* returned and no copy or masking step has run.
C4_UnknownKeyNamesFirst ==
    (/\ pc \notin {"idle", "checkType", "checkKeys"}
     /\ ArgIsList
     /\ \E i \in DOMAIN Items : Items[i] \notin CatalogueKeys)
    => /\ pc = "error"
       /\ \E i \in DOMAIN Items :
            /\ Items[i] \notin CatalogueKeys
            /\ \A j \in 1..(i - 1) : Items[j] \in CatalogueKeys
            /\ raised = ValueError(KeyMessage(Items[i]))
       /\ returned = 0
       /\ regionalDataset = 0
       /\ Heap = before

\* The call raised on a list that holds a catalogued key, then two different
\* keys that are not in the catalogue.
C4_Witness ==
    /\ pc = "error"
    /\ ArgIsList
    /\ Len(Items) = 3
    /\ Items[1] \in CatalogueKeys
    /\ Items[2] \notin CatalogueKeys
    /\ Items[3] \notin CatalogueKeys
    /\ Items[2] # Items[3]

\* C5: an argument that is not a list ends the call with the ValueError that
\* carries the guidance text, before any key is checked, without a warning
\* and without returning or copying anything.
C5_NonListFailsFirst ==
    (pc \notin {"idle", "checkType"} /\ ~ArgIsList)
    => /\ pc = "error"
       /\ raised = ValueError(ListMessage)
       /\ warned = <<>>
       /\ returned = 0
       /\ regionalDataset = 0
       /\ Heap = before

\* The call raised on a set that holds a key that is not in the catalogue.
C5_Witness ==
    /\ pc = "error"
    /\ regionKeyList = PyOther("set", <<999>>)

\* C6: in both notebooks a call with regionKeyList = [] raises nothing, shows
\* the caller a warning and returns a dataset; a warning is shown only for the
\* empty list and never together with an error.
C6_EmptyListWarnsAndReturns ==
    /\ (pc \in {"done", "error"} /\ regionKeyList = PyList(<<>>))
        => (pc = "done" /\ warned # <<>> /\ IsRef(returned))
    /\ warned # <<>> => (regionKeyList = PyList(<<>>) /\ pc # "error")

\* C7: the attribute is 'All' exactly when the keys of regionKeyList are all
\* the catalogue keys.
C7_AllIffEveryKeySelected ==
    pc = "done" => (RegionsWithData = {"All"} <=> Selected = CatalogueKeys)

\* C8: the attribute is 'Inner Arctic' exactly when the keys of regionKeyList
\* are {10,11,12,13,15} and the list's length differs from the catalogue's.
C8_InnerArcticIffCanonicalKeys ==
    pc = "done" =>
        (RegionsWithData = {"Inner Arctic"}
            <=> (Selected = InnerArcticKeys /\ Len(Items) # Len(In.keys)))

\* The label the catalogue gives key k.
CatalogueLabel(k) == In.labels[CHOOSE j \in DOMAIN In.keys : In.keys[j] = k]

\* C9: when the list is neither the 'All' case (it has not the catalogue's
\* length and does not cover the catalogue's keys) nor the 'Inner Arctic'
\* case, the attribute is the labels of the list's keys, one per element, in
\* list order, joined by ', '.
C9_OtherwiseJoinedLabels ==
    (/\ pc = "done"
     /\ Len(Items) # Len(In.keys)
     /\ Selected # CatalogueKeys
     /\ Selected # InnerArcticKeys)
    => RegionsWithData = {Join([i \in DOMAIN Items |-> CatalogueLabel(Items[i])])}

\* C10: a second call with the same regionKeyList on the dataset the first
\* call returned returns a dataset with the same cell values, coordinates,
\* catalogue and attrs.
C10_Idempotent ==
    (pc = "done" /\ history # <<>> /\ history[1] = regionKeyList)
    => Out = In

\* The second call with the same list returned, and the list had removed the
\* values of a cell of the loaded dataset.
C10_Witness ==
    /\ pc = "done"
    /\ history # <<>>
    /\ history[1] = regionKeyList
    /\ keysToRemove # <<>>
    /\ \E i \in MaskedVars : \E p \in Times \X Cells :
        Out.data_vars[i][p] = NaN /\ Content(Heap, 1).data_vars[i][p] # NaN
OtherAttrs(attrs) == {a \in attrs : a[1] # RegionsAttr}

\* C11: the returned dataset has the variables, the dimensions and the
\* coordinate fields (latitude, longitude, region_mask with its keys and
\* labels) of the input; it differs from the input only in cells of variables
\* other than seaice_conc_monthly_cdr that are NaN, and in the attribute
\* 'regions with data'.
C11_SameShapeAndCoordinates ==
    pc = "done" =>
        /\ DOMAIN Out.data_vars = DOMAIN In.data_vars
        /\ \A i \in DOMAIN In.data_vars :
            /\ DOMAIN Out.data_vars[i] = DOMAIN In.data_vars[i]
            /\ \A p \in DOMAIN In.data_vars[i] :
                \/ Out.data_vars[i][p] = In.data_vars[i][p]
                \/ i \in MaskedVars /\ Out.data_vars[i][p] = NaN
        /\ Out.coords = In.coords
        /\ Out.keys = In.keys
        /\ Out.labels = In.labels
        /\ OtherAttrs(Out.attrs) = OtherAttrs(In.attrs)
        /\ Cardinality(RegionsWithData) = 1

\* A call returned a dataset in which a variable has a masked cell and a cell
\* that kept its value.
C11_Witness ==
    /\ pc = "done"
    /\ \E i \in MaskedVars : \E p, q \in Times \X Cells :
        /\ Out.data_vars[i][p] = NaN /\ In.data_vars[i][p] # NaN
        /\ Out.data_vars[i][q] # NaN
\* C12: the returned dataset does not alias the input: after an in-place
\* write to a cell of any field of the returned dataset, or to its metadata,
\* the input dataset still has the content it had when the call was made.
C12_NoAliasing ==
    pc = "written" => Content(Heap, dataset) = Content(before, dataset)
\* The steps that may follow each step of a call.
StepsAfter(at) ==
    CASE at = "idle" -> {"checkType"}
      [] at = "checkType" -> {"checkKeys", "error"}
      [] at = "checkKeys" -> {"checkEmpty", "error"}
      [] at = "checkEmpty" -> {"keysToRemove", "error"}
      [] at = "keysToRemove" -> {"copy"}
      [] at = "copy" -> {"mask"}
      [] at = "mask" -> {"mask", "labels"}
      [] at = "labels" -> {"attrs", "error"}
      [] at = "attrs" -> {"done"}
      [] OTHER -> {}

LookupFailed == raised = ValueError(ItemMessage)

Working == Content(Heap, regionalDataset)

\* C13 as stated: every failure of the call happens before the working copy
\* is made or any cell is masked.
C13_EveryFailureBeforeCopy ==
    pc = "error" => regionalDataset = 0 /\ Heap = before

\* C13, amended: the steps occur in the order type check, key check, empty
\* check, working copy, masking, label lookup, metadata; a failure of one of
\* the three checks happens before the working copy is made; a failure of the
\* label lookup happens after the working copy was made and every variable
\* was visited by the masking loop, with nothing returned and the input
\* dataset unchanged.
C13_OrderAndFailures ==
    /\ [][pc' \in StepsAfter(pc)]_vars
    /\ [](raised # None => pc = "error")
    /\ [](pc = "error" =>
            /\ returned = 0
            /\ Content(Heap, dataset) = Content(before, dataset)
            /\ IF LookupFailed
               THEN regionalDataset # 0 /\ varsLeft = <<>>
               ELSE regionalDataset = 0 /\ Heap = before)

\* The label lookup failed after a cell of the working copy was masked.
C13_Witness ==
    /\ pc = "error"
    /\ LookupFailed
    /\ \E i \in MaskedVars : \E p \in Times \X Cells :
        Working.data_vars[i][p] = NaN /\ In.data_vars[i][p] # NaN

\* The catalogue rows whose key is k.
RowsOf(k) == {i \in DOMAIN In.keys : In.keys[i] = k}

\* C15: the label of each key is found by exact match on the catalogue keys;
\* when validation passed and a key does not have exactly one catalogue row
\* the call fails with the lookup's error and no dataset is returned; a call
\* that goes on has, for each list element, the label of its one row, which
\* is not empty; with unique catalogue keys the lookup never fails.
C15_ExactlyOneLabel ==
    /\ pc \in {"attrs", "done"} =>
        /\ Len(labels) = Len(Items)
        /\ \A i \in DOMAIN Items :
            /\ Cardinality(RowsOf(Items[i])) = 1
            /\ \A r \in RowsOf(Items[i]) : labels[i] = In.labels[r]
            /\ labels[i] # ""
    /\ pc = "error" /\ LookupFailed =>
        /\ \E i \in DOMAIN Items : Cardinality(RowsOf(Items[i])) # 1
        /\ returned = 0
    /\ pc = "error" /\ ~LookupFailed => regionalDataset = 0
    /\ pc # "idle" /\ Cardinality(Range(In.keys)) = Len(In.keys) => ~LookupFailed

\* The lookup of a key that the catalogue lists twice failed.
C15_Witness ==
    /\ pc = "error"
    /\ LookupFailed
    /\ \E i \in DOMAIN Items : Cardinality(RowsOf(Items[i])) = 2
\* The orders in which the elements of a sequence can be arranged.
Orders(s) == {[i \in DOMAIN s |-> s[f[i]]] : f \in Permutations(DOMAIN s)}

\* Masking once: NaN where region_mask is a catalogue key that is not selected.
MaskedOnce(arr) ==
    [p \in DOMAIN arr |->
        IF \E k \in CatalogueKeys \ Selected : MaskAt(p[2]) = Num(k) THEN NaN ELSE arr[p]]

\* C14: the masking loop is order-independent: the exclusions of keysToRemove
\* applied in any order give the cell values of the returned dataset, which
\* are those of masking once with the predicate 'region_mask is a catalogue
\* key that is not in regionKeyList'; and the result is the same for every
\* order of the catalogue rows and of regionKeyList.
C14_OrderIndependent ==
    pc = "done" =>
        \A i \in MaskedVars :
            /\ \A ks \in Orders(keysToRemove) :
                MaskLoop(In.data_vars[i], In.coords["region_mask"], ks) = Out.data_vars[i]
            /\ Out.data_vars[i] = MaskedOnce(In.data_vars[i])
            /\ \A rows \in Orders(In.keys), items \in Orders(Items) :
                MaskLoop(In.data_vars[i], In.coords["region_mask"],
                         KeysToRemoveOf([key |-> rows, label |-> rows], items))
                    = Out.data_vars[i]

\* A call returned after excluding two keys, each of which masked a cell.
C14_Witness ==
    /\ pc = "done"
    /\ Len(keysToRemove) >= 2
    /\ \E c, d \in Cells :
        /\ MaskAt(c) = Num(keysToRemove[1])
        /\ MaskAt(d) = Num(keysToRemove[2])
        /\ \A i \in MaskedVars : \E t \in Times :
            Out.data_vars[i][<<t, d>>] = NaN /\ In.data_vars[i][<<t, d>>] # NaN
\* What the finished call did, as an outcome.
Observed ==
    [raised |-> raised, result |-> IF pc = "done" THEN Out ELSE None]

\* C18: the copies of restrictRegionally of the two notebooks, each in its own
\* notebook, give the same outcome for every input: the exception, the cell
\* values and the metadata of the finished call are those of the call of
\* either notebook on the same input.
C18_SameOutcomeInBothNotebooks ==
    pc \in {"done", "error"} =>
        \A nb \in Notebooks : Outcome(nb, before, dataset, regionKeyList) = Observed

\* The lists of two successive calls, and the keys present in both.
ListA == history[1]
ListB == regionKeyList
InBoth == PyList(SelectSeq(ListA.items, LAMBDA k : k \in Range(ListB.items)))

\* C19: successive restrictions compose as an intersection: the cell values
\* returned by restrictRegionally(restrictRegionally(D, A), B) are those
\* returned by restrictRegionally(D, C), C the keys present in both A and B;
\* the final 'regions with data' is the summary of B alone; a cell that the
\* first call masked is not restored.
C19_ComposeAsIntersection ==
    (pc = "done" /\ history # <<>>) =>
        LET direct == Outcome(notebook, Heap, 1, InBoth)
            alone == Outcome(notebook, Heap, 1, ListB)
        IN /\ direct.raised = None
           /\ direct.result.data_vars = Out.data_vars
           /\ GetAttr(alone.result.attrs, RegionsAttr) = RegionsWithData
           /\ \A i \in DOMAIN In.data_vars : \A p \in DOMAIN In.data_vars[i] :
                In.data_vars[i][p] = NaN => Out.data_vars[i][p] = NaN
\* C16 as stated: the contour input SICarray of every map drawn from the
\* dataset restrictRegionally returned equals the one built from the input
\* dataset, and the mapped variable has a value only in cells that are in a
\* selected region and have a concentration above 0.5 (500 thousandths).
C16_EdgeUnchangedDataRestricted ==
    (returned # 0 /\ fig.dataset = returned) =>
        \A k \in DOMAIN fig.drawn :
            LET mp == fig.drawn[k].map
            IN /\ mp.SICarray = SICarrayOf(Heap, dataset, mp.time)
               /\ \A c \in Cells :
                    mp.data[c] # NaN =>
                        /\ InSelection(c)
                        /\ ~In.data_vars[VarIndex(SIC)][<<mp.time, c>>].nan
                        /\ In.data_vars[VarIndex(SIC)][<<mp.time, c>>].v > 500

\* C17: the two halves of the contour workaround are disjoint: no cell is
\* unmasked in both; the latitude and data arrays of a half have the mask of
\* that half's longitude array; a cell is masked in both halves exactly when
\* its longitude is strictly between -0.01 and 0 (-10 and 0 thousandths), and
\* is unmasked in exactly one half otherwise.
C17_TwoDisjointHalves ==
    \A k \in DOMAIN fig.drawn :
        LET mp == fig.drawn[k].map
            lon == Content(Heap, fig.dataset).coords["longitude"]
        IN /\ mp.lonGreater.data = lon /\ mp.lonLesser.data = lon
           /\ mp.latGreater.mask = mp.lonGreater.mask
           /\ mp.dataGreater.mask = mp.lonGreater.mask
           /\ mp.latLesser.mask = mp.lonLesser.mask
           /\ mp.dataLesser.mask = mp.lonLesser.mask
           /\ mp.dataGreater.data = mp.SICarray /\ mp.dataLesser.data = mp.SICarray
           /\ \A c \in Cells :
                /\ mp.lonGreater.mask[c] \/ mp.lonLesser.mask[c]
                /\ (mp.lonGreater.mask[c] /\ mp.lonLesser.mask[c])
                    <=> (lon[c].v > -10 /\ lon[c].v < 0)

\* A map was drawn of a grid with a cell at longitude 0, which is in the
\* half of lonLesser only, and a cell between the bounds, which is in neither.
C17_Witness ==
    \E k \in DOMAIN fig.drawn : \E c, d \in Cells :
        LET mp == fig.drawn[k].map
        IN /\ mp.lonGreater.data[c] = Num(0)
           /\ mp.lonGreater.mask[c] /\ ~mp.lonLesser.mask[c]
           /\ mp.lonGreater.data[d] = Num(-5)
           /\ mp.lonGreater.mask[d] /\ mp.lonLesser.mask[d]

\* The number of time steps of the dataset plotWinterMaps was called on.
WinterSteps == Cardinality(TimeSteps(Heap, fig.dataset))

\* C20: plotWinterMaps draws one map per time step on six panels: with n
\* time steps, 1 <= n <= 6, it ends with the panels 0..n-1 drawn in order,
\* panel i showing time step i (the maps count time steps from 1), and the
\* colour bar made from the last map drawn; it never fails then. With n > 6
\* it fails with an IndexError at the seventh time step, after six maps; with
\* n = 0 it fails at the colour bar, im being unbound, with no map drawn.
C20_OnePanelPerTimeStep ==
    fig.fn = "plotWinterMaps" =>
        /\ Len(fig.drawn) = fig.i
        /\ fig.i <= WinterSteps /\ fig.i <= 6
        /\ \A k \in DOMAIN fig.drawn :
            /\ fig.drawn[k].ax = k - 1
            /\ fig.drawn[k].map.time = k
            /\ fig.drawn[k].map = Panel(Heap, fig.dataset, fig.dataVar, k)
        /\ fig.at = "shown" =>
            /\ WinterSteps >= 1 /\ WinterSteps <= 6
            /\ fig.i = WinterSteps
            /\ fig.cb = <<WinterSteps - 1>>
        /\ fig.at = "error" =>
            \/ /\ WinterSteps > 6
               /\ fig.i = 6
               /\ fig.raised.type = "IndexError"
            \/ /\ WinterSteps = 0
               /\ fig.drawn = <<>>
               /\ fig.raised.type = "UnboundLocalError"
        /\ (WinterSteps >= 1 /\ WinterSteps <= 6) => fig.at # "error"
        /\ (fig.at = "loop" /\ fig.i = 6) => WinterSteps >= 6

\* plotWinterMaps ended with six maps and the colour bar of the sixth.
C20_Witness ==
    /\ fig.fn = "plotWinterMaps"
    /\ fig.at = "shown"
    /\ Len(fig.drawn) = 6
    /\ fig.cb = <<5>>

====
